---- MODULE Spec2Model ----
(***************************************************************************)
(* Model of src/src/core.py: the FileContext per-file transaction and the  *)
(* traverse directory walker, over an explicit POSIX-like filesystem, and  *)
(* of the command-line script src/scripts/drone_video.py that calls it.    *)
(*                                                                         *)
(* Strings are sequences of one-character strings, so that the path        *)
(* arithmetic of the code (os.path.join, dirname, basename, rsplit, lower, *)
(* endswith, str.format) is computed character by character.               *)
(***************************************************************************)
EXTENDS Naturals, Sequences, FiniteSets, TLC

VARIABLES
    fs,        \* the filesystem: resolved absolute path (sequence of names) -> node
    req,       \* the arguments of the top-level traverse call: dir, format, func,
               \* recursive; cli and input when the script makes the call
    pc,        \* "cli" | "start" | "walk" | "op" | "done" | "raised" | "exit0" | "exit1"
    stack,     \* the active traverse calls, innermost last: [dir, todo]
    ctx,       \* the FileContext handed to the running Transform Operation
    opn,       \* what the running Transform Operation has done so far:
               \* [nset, nwrite, format], format the last extension it set
    last,      \* the last step taken and its outcome
    calls,     \* history: original_file of every func(ctx, ...) invocation, in order
    listed,    \* history: the resolved directories whose listing was read, in order
    log,       \* history: the messages printed by traverse
    finalized, \* history: [path, data, by] of the last successful rename_temp_file
               \* of each invocation (by) onto each path
    discards,  \* history: original_file of every delete_original_file call, and
               \* every file a Transform Operation removed itself
    fs0        \* history: the filesystem before the run

vars == <<fs, req, pc, stack, ctx, opn, last, calls, listed, log, finalized, discards, fs0>>

----------------------------------------------------------------------------
(* Bounds of the model.                                                    *)

\* set_format calls one Transform Operation invocation makes at most
MaxSetFormat == 2
\* writes to the staging path one Transform Operation invocation makes at most
MaxWrite == 1

----------------------------------------------------------------------------
(* Strings.                                                                *)

Slash == "/"
Dot == "."
S_compressed == <<"c", "o", "m", "p", "r", "e", "s", "s", "e", "d">>
S_temp == <<"-", "t", "e", "m", "p">>

\* str.lower, one character
LowerChar(c) ==
    CASE c = "A" -> "a"
      [] c = "B" -> "b"
      [] c = "M" -> "m"
      [] c = "T" -> "t"
      [] c = "X" -> "x"
      [] OTHER -> c

\* str.lower
Lower(s) == [i \in 1..Len(s) |-> LowerChar(s[i])]

\* str.endswith
EndsWith(s, suf) ==
    /\ Len(suf) <= Len(s)
    /\ SubSeq(s, Len(s) - Len(suf) + 1, Len(s)) = suf

\* str.startswith, one character
StartsWithChar(s, c) == Len(s) > 0 /\ s[1] = c

\* str.strip(chars): the characters of cs are taken off both ends
RECURSIVE LStripChars(_, _)
LStripChars(s, cs) == IF s # <<>> /\ Head(s) \in cs THEN LStripChars(Tail(s), cs) ELSE s
RECURSIVE RStripChars(_, _)
RStripChars(s, cs) ==
    IF s # <<>> /\ s[Len(s)] \in cs THEN RStripChars(SubSeq(s, 1, Len(s) - 1), cs) ELSE s
StripChars(s, cs) == RStripChars(LStripChars(s, cs), cs)

\* str.rfind of one character, 1-based; 0 when absent
RFind(s, c) ==
    LET hits == {i \in 1..Len(s) : s[i] = c}
    IN  IF hits = {} THEN 0 ELSE CHOOSE i \in hits : \A j \in hits : j <= i

\* the name is split at its first dot
RSplitDot_first(s) ==
    LET hits == {i \in 1..Len(s) : s[i] = Dot}
        i == IF hits = {} THEN 0 ELSE CHOOSE k \in hits : \A j \in hits : k <= j
    IN  IF i = 0 THEN <<s>> ELSE <<SubSeq(s, 1, i - 1), SubSeq(s, i + 1, Len(s))>>

\* str.rsplit(".", 1): one piece when there is no dot, else two
RSplitDot(s) ==
    LET i == RFind(s, Dot)
    IN  IF i = 0 THEN <<s>> ELSE <<SubSeq(s, 1, i - 1), SubSeq(s, i + 1, Len(s))>>

\* str.rstrip("/")
RECURSIVE RStripSlash(_)
RStripSlash(s) ==
    IF Len(s) > 0 /\ s[Len(s)] = Slash THEN RStripSlash(SubSeq(s, 1, Len(s) - 1)) ELSE s

\* os.path.dirname (posixpath)
Dirname(p) ==
    LET i == RFind(p, Slash)
        head == SubSeq(p, 1, i)
    IN  IF head # <<>> /\ \E k \in 1..Len(head) : head[k] # Slash
        THEN RStripSlash(head)
        ELSE head

\* os.path.basename (posixpath)
Basename(p) == SubSeq(p, RFind(p, Slash) + 1, Len(p))

\* os.path.join of two parts (posixpath)
Join(a, b) ==
    IF StartsWithChar(b, Slash) THEN b
    ELSE IF a = <<>> \/ a[Len(a)] = Slash THEN a \o b
    ELSE a \o <<Slash>> \o b

\* str.split("/")
RECURSIVE SplitSlash(_)
SplitSlash(s) ==
    LET hits == {i \in 1..Len(s) : s[i] = Slash}
    IN  IF hits = {} THEN <<s>>
        ELSE LET i == CHOOSE k \in hits : \A j \in hits : k <= j
             IN  <<SubSeq(s, 1, i - 1)>> \o SplitSlash(SubSeq(s, i + 1, Len(s)))

\* "/".join
RECURSIVE JoinSlash(_)
JoinSlash(parts) ==
    IF parts = <<>> THEN <<>>
    ELSE IF Len(parts) = 1 THEN parts[1]
    ELSE parts[1] \o <<Slash>> \o JoinSlash(Tail(parts))

\* FileContext.convert_file_name: backslash-escape spaces and single quotes
RECURSIVE convert_file_name(_)
convert_file_name(name) ==
    IF name = <<>> THEN <<>>
    ELSE IF Head(name) \in {" ", "'"}
         THEN <<"\\", Head(name)>> \o convert_file_name(Tail(name))
         ELSE <<Head(name)>> \o convert_file_name(Tail(name))

----------------------------------------------------------------------------
(* pathlib.                                                                *)

\* the parts pathlib keeps of a path string: empty and "." components go
PureParts(s) == SelectSeq(SplitSlash(s), LAMBDA c : c # <<>> /\ c # <<Dot>>)

\* str(Path(s) / name): what Path(dir).iterdir() yields for the entry `name`
PathChild(s, name) ==
    LET parts == JoinSlash(PureParts(s) \o <<name>>)
    IN  IF StartsWithChar(s, Slash) THEN <<Slash>> \o parts ELSE parts

\* str(Path(s))
PathStr(s) ==
    LET parts == JoinSlash(PureParts(s))
    IN  IF StartsWithChar(s, Slash) THEN <<Slash>> \o parts
        ELSE IF parts = <<>> THEN <<Dot>> ELSE parts

----------------------------------------------------------------------------
(* The filesystem.                                                         *)

\* the process's working directory
CWD == <<<<"w">>>>

NoPath == <<<<"?">>, <<"?">>>>
DirNode == [kind |-> "dir", data |-> <<"r">>]
LockedDirNode == [kind |-> "dir", data |-> <<>>]
FileNode(d) == [kind |-> "file", data |-> d]

IsDirAt(f, q) == q \in DOMAIN f /\ f[q].kind = "dir"
IsFileAt(f, q) == q \in DOMAIN f /\ f[q].kind = "file"
Parent(q) == IF q = <<>> THEN <<>> ELSE SubSeq(q, 1, Len(q) - 1)

\* path resolution, component by component, from the resolved directory cur
RECURSIVE Walk(_, _, _)
Walk(f, cur, comps) ==
    IF cur = NoPath THEN NoPath
    ELSE IF comps = <<>> THEN cur
    ELSE IF ~IsDirAt(f, cur) THEN NoPath
    ELSE LET c == Head(comps)
         IN  IF c = <<>> \/ c = <<Dot>> THEN Walk(f, cur, Tail(comps))
             ELSE IF c = <<Dot, Dot>> THEN Walk(f, Parent(cur), Tail(comps))
             ELSE IF Append(cur, c) \in DOMAIN f THEN Walk(f, Append(cur, c), Tail(comps))
             ELSE NoPath

\* the node a path string names, NoPath when it names none (stat fails)
Resolve(f, s) ==
    IF s = <<>> THEN NoPath
    ELSE Walk(f, IF StartsWithChar(s, Slash) THEN <<>> ELSE CWD, SplitSlash(s))

\* where a path string would be created: its resolved parent plus its last
\* name; NoPath when the parent is no directory
Target(f, s) ==
    LET b == Basename(s)
        par == IF Dirname(s) = <<>> THEN CWD ELSE Resolve(f, Dirname(s))
    IN  IF par = NoPath \/ ~IsDirAt(f, par) \/ b = <<>> \/ b = <<Dot>> \/ b = <<Dot, Dot>>
        THEN NoPath
        ELSE Append(par, b)

\* os.path.exists, os.path.isfile, os.path.isdir, Path.exists, Path.is_dir
Exists(f, s) == Resolve(f, s) # NoPath
IsFile(f, s) == IsFileAt(f, Resolve(f, s))
IsDir(f, s) == IsDirAt(f, Resolve(f, s))

\* f with node n at the resolved path q
Put(f, q, n) == [x \in DOMAIN f \cup {q} |-> IF x = q THEN n ELSE f[x]]
\* f without the resolved path q
Del(f, q) == [x \in DOMAIN f \ {q} |-> f[x]]

\* os.listdir: the names in a resolved directory
Names(f, q) == {x[Len(x)] : x \in {y \in DOMAIN f : Len(y) = Len(q) + 1 /\ Parent(y) = q}}

----------------------------------------------------------------------------
(* Filesystem calls.  Each returns [ok, fs]: ok is FALSE when the call     *)
(* raises OSError, and fs is the filesystem it leaves.                     *)

Done(f) == [ok |-> TRUE, fs |-> f]
Failed(f) == [ok |-> FALSE, fs |-> f]

\* os.mkdir
Mkdir(f, s) ==
    LET t == Target(f, s)
    IN  IF t = NoPath \/ t \in DOMAIN f THEN Failed(f) ELSE Done(Put(f, t, DirNode))

\* os.makedirs: create the missing ancestors, then the directory itself
RECURSIVE Makedirs(_, _)
Makedirs(f, s) ==
    LET head == Dirname(s)
        tail == Basename(s)
        up == IF head # <<>> /\ tail # <<>> /\ ~Exists(f, head)
              THEN Makedirs(f, head)
              ELSE Done(f)
    IN  IF up.ok THEN Mkdir(up.fs, s) ELSE up

\* os.remove
Remove(f, s) ==
    LET q == Resolve(f, s)
    IN  IF IsFileAt(f, q) THEN Done(Del(f, q)) ELSE Failed(f)

\* the resolved paths at or below q
Subtree(f, q) == {x \in DOMAIN f : Len(x) >= Len(q) /\ SubSeq(x, 1, Len(q)) = q}

\* os.rename: a file replaces an existing file, never a directory; a
\* directory replaces only an empty directory and takes its subtree along
Rename(f, src, dst) ==
    LET a == Resolve(f, src)
        b == Target(f, dst)
        moved(x) == b \o SubSeq(x, Len(a) + 1, Len(x))
        rest == DOMAIN f \ (Subtree(f, a) \cup {b})
    IN  IF a = NoPath \/ b = NoPath \/ a = <<>> THEN Failed(f)
        ELSE IF a = b THEN Done(f)
        ELSE IF IsFileAt(f, a)
             THEN IF IsDirAt(f, b) THEN Failed(f) ELSE Done(Put(Del(f, a), b, f[a]))
        ELSE IF IsFileAt(f, b) \/ Subtree(f, b) \ {b} # {} \/ b \in Subtree(f, a)
             THEN Failed(f)
        ELSE Done([x \in rest \cup {moved(y) : y \in Subtree(f, a)} |->
                      IF x \in rest THEN f[x]
                      ELSE f[CHOOSE y \in Subtree(f, a) : moved(y) = x]])

\* open(path, "w").write(data): create or truncate a regular file
WriteFile(f, s, data) ==
    LET t == Target(f, s)
    IN  IF t = NoPath \/ IsDirAt(f, t) THEN Failed(f) ELSE Done(Put(f, t, FileNode(data)))

----------------------------------------------------------------------------
(* FileContext.                                                            *)

NoCtx == [original_file |-> <<>>, temp_file |-> <<>>, final_file |-> <<>>,
          original_file_name |-> <<>>, temp_file_name |-> <<>>]

\* the staging directory is the directory of the original itself
CompressedDir_same(file_dir) == file_dir

\* the staging directory is made beside the directory of the original
CompressedDir_beside(file_dir) == Join(Dirname(file_dir), S_compressed)

\* the staging directory of a file in file_dir
CompressedDir(file_dir) == Join(file_dir, S_compressed)

\* FileContext.__init__: [ok, fs, ctx]; ok is FALSE when the constructor
\* raises (ValueError from unpacking a name with no dot, OSError from makedirs)
FileContext(f, original_file) ==
    LET file_dir == Dirname(original_file)
        file_name == Basename(original_file)
        parts == RSplitDot(file_name)
        compressed_dir == CompressedDir(file_dir)
        made == IF ~Exists(f, compressed_dir) THEN Makedirs(f, compressed_dir) ELSE Done(f)
        temp_file == Join(compressed_dir, parts[1] \o S_temp \o <<Dot>> \o parts[2])
    IN  IF Len(parts) # 2 THEN [ok |-> FALSE, fs |-> f, ctx |-> NoCtx]
        ELSE IF ~made.ok THEN [ok |-> FALSE, fs |-> made.fs, ctx |-> NoCtx]
        ELSE [ok |-> TRUE, fs |-> made.fs,
              ctx |-> [original_file |-> original_file,
                       temp_file |-> temp_file,
                       final_file |-> Join(compressed_dir, file_name),
                       original_file_name |-> convert_file_name(original_file),
                       temp_file_name |-> convert_file_name(temp_file)]]

\* FileContext.set_format: the context after the call
set_format(c, format) ==
    LET temp_name == RSplitDot(Basename(c.temp_file))[1]
        compressed_dir == Dirname(c.temp_file)
        temp_file == Join(compressed_dir, temp_name \o <<Dot>> \o format)
        final_name == RSplitDot(Basename(c.original_file))[1]
    IN  [c EXCEPT !.temp_file = temp_file,
                  !.temp_file_name = convert_file_name(temp_file),
                  !.final_file = Join(compressed_dir, final_name \o <<Dot>> \o format)]

\* FileContext.archive_original_file: nothing
archive_original_file(f, c) == Done(f)

\* the original is removed without being looked for first
delete_original_file_unchecked(f, c) == Remove(f, c.original_file)

\* FileContext.delete_original_file
delete_original_file(f, c) ==
    IF Exists(f, c.original_file) THEN Remove(f, c.original_file) ELSE Done(f)

\* the final path is cleared before the rename
rename_temp_file_clear(f, c) ==
    Rename(IF Exists(f, c.final_file) THEN Remove(f, c.final_file).fs ELSE f,
           c.temp_file, c.final_file)

\* the staged file is copied, not moved
rename_temp_file_copy(f, c) ==
    IF IsFile(f, c.temp_file)
    THEN WriteFile(f, c.final_file, f[Resolve(f, c.temp_file)].data)
    ELSE Failed(f)

\* FileContext.rename_temp_file
rename_temp_file(f, c) == Rename(f, c.temp_file, c.final_file)

----------------------------------------------------------------------------
(* traverse.                                                               *)

Msg(m, path) == [msg |-> m, path |-> path]
Step(op, ok) == [op |-> op, ok |-> ok]
FreshOp == [nset |-> 0, nwrite |-> 0, format |-> <<>>]

\* the root is listed without being validated first
Enter_unchecked(f, dir) ==
    LET directory == PathStr(dir)
        q == Resolve(f, directory)
    IN  IF ~IsDirAt(f, q) \/ f[q].data = <<>>
        THEN [frames |-> <<>>, listed |-> <<>>,
              log |-> <<Msg("Cannot access directory", directory)>>]
        ELSE [frames |-> <<[dir |-> dir, todo |-> Names(f, q)]>>, listed |-> <<q>>, log |-> <<>>]

\* the head of traverse, up to reading the listing: [frames, listed, log].
\* A missing root and a root that is no directory are reported and the call
\* returns; a listing that cannot be read is reported by the outer handler.
Enter(f, dir) ==
    LET directory == PathStr(dir)
        q == Resolve(f, directory)
    IN  IF ~Exists(f, directory)
        THEN [frames |-> <<>>, listed |-> <<>>, log |-> <<Msg("Directory not found", directory)>>]
        ELSE IF ~IsDir(f, directory)
        THEN [frames |-> <<>>, listed |-> <<>>, log |-> <<Msg("Not a directory", directory)>>]
        ELSE IF f[q].data = <<>>
        THEN [frames |-> <<>>, listed |-> <<>>,
              log |-> <<Msg("Cannot access directory", directory)>>]
        ELSE [frames |-> <<[dir |-> dir, todo |-> Names(f, q)]>>, listed |-> <<q>>, log |-> <<>>]

\* the top-level call: traverse(dir, format, func, recursive=...)
traverse ==
    /\ pc = "start"
    /\ LET e == Enter(fs, req.dir)
       IN  /\ stack' = e.frames
           /\ listed' = e.listed
           /\ log' = e.log
           /\ pc' = IF e.frames = <<>> THEN "done" ELSE "walk"
    /\ last' = Step("traverse", TRUE)
    /\ UNCHANGED <<fs, req, ctx, opn, calls, finalized, discards, fs0>>

Top == stack[Len(stack)]
\* the path the loop body builds for the listed entry name
ObjPath(name) == Join(Top.dir, PathChild(Top.dir, name))
\* the stack with the listed entry name taken off the innermost listing
Taken(name) == [stack EXCEPT ![Len(stack)].todo = @ \ {name}]

\* the walk of the directory ends at an entry that is gone
IterMissing_stop ==
    /\ pc = "walk"
    /\ stack # <<>>
    /\ \E name \in Top.todo :
         /\ ~Exists(fs, ObjPath(name))
         /\ stack' = [stack EXCEPT ![Len(stack)].todo = {}]
         /\ log' = Append(log, Msg("Skipping", ObjPath(name)))
    /\ last' = Step("skip", TRUE)
    /\ UNCHANGED <<fs, req, pc, ctx, opn, calls, listed, finalized, discards, fs0>>

\* one iteration of the loop: the entry is gone
IterMissing ==
    /\ pc = "walk"
    /\ stack # <<>>
    /\ \E name \in Top.todo :
         /\ ~Exists(fs, ObjPath(name))
         /\ stack' = Taken(name)
         /\ log' = Append(log, Msg("Skipping", ObjPath(name)))
    /\ last' = Step("skip", TRUE)
    /\ UNCHANGED <<fs, req, pc, ctx, opn, calls, listed, finalized, discards, fs0>>

\* one iteration of the loop: the entry is no regular file
IterDir ==
    /\ pc = "walk"
    /\ stack # <<>>
    /\ \E name \in Top.todo :
         /\ Exists(fs, ObjPath(name))
         /\ ~IsFile(fs, ObjPath(name))
         /\ IF req.recursive
            THEN LET e == Enter(fs, ObjPath(name))
                 IN  /\ stack' = Taken(name) \o e.frames
                     /\ listed' = listed \o e.listed
                     /\ log' = log \o e.log
            ELSE /\ stack' = Taken(name)
                 /\ UNCHANGED <<listed, log>>
    /\ last' = Step("dir", TRUE)
    /\ UNCHANGED <<fs, req, pc, ctx, opn, calls, finalized, discards, fs0>>

\* one iteration of the loop: a regular file the filter does not select
IterOther ==
    /\ pc = "walk"
    /\ stack # <<>>
    /\ \E name \in Top.todo :
         /\ IsFile(fs, ObjPath(name))
         /\ ~EndsWith(Lower(ObjPath(name)), Lower(req.format))
         /\ stack' = Taken(name)
    /\ last' = Step("other", TRUE)
    /\ UNCHANGED <<fs, req, pc, ctx, opn, calls, listed, log, finalized, discards, fs0>>

\* one iteration of the loop: a regular file the filter selects; the
\* FileContext is built and, unless that raises, func is called with it
IterFile ==
    /\ pc = "walk"
    /\ stack # <<>>
    /\ \E name \in Top.todo :
         /\ IsFile(fs, ObjPath(name))
         /\ EndsWith(Lower(ObjPath(name)), Lower(req.format))
         /\ stack' = Taken(name)
         /\ LET r == FileContext(fs, ObjPath(name))
            IN  /\ fs' = r.fs
                /\ IF r.ok
                   THEN /\ ctx' = r.ctx
                        /\ calls' = Append(calls, ObjPath(name))
                        /\ pc' = "op"
                        /\ UNCHANGED log
                   ELSE /\ log' = Append(log, Msg("Error processing file", ObjPath(name)))
                        /\ UNCHANGED <<ctx, calls, pc>>
                /\ last' = Step("file", r.ok)
    /\ opn' = FreshOp
    /\ UNCHANGED <<req, listed, finalized, discards, fs0>>

\* only the outermost traverse call returns
Return_top ==
    /\ pc = "walk"
    /\ Len(stack) = 1
    /\ Top.todo = {}
    /\ stack' = <<>>
    /\ pc' = "done"
    /\ last' = Step("return", TRUE)
    /\ UNCHANGED <<fs, req, ctx, opn, calls, listed, log, finalized, discards, fs0>>

\* the listing is exhausted: the innermost traverse call returns
Return ==
    /\ pc = "walk"
    /\ stack # <<>>
    /\ Top.todo = {}
    /\ stack' = SubSeq(stack, 1, Len(stack) - 1)
    /\ pc' = IF Len(stack) = 1 THEN "done" ELSE "walk"
    /\ last' = Step("return", TRUE)
    /\ UNCHANGED <<fs, req, ctx, opn, calls, listed, log, finalized, discards, fs0>>

----------------------------------------------------------------------------
(* The Transform Operation func.  An "arbitrary" func makes any sequence   *)
(* of FileContext calls and writes to the staging path.  A "conforming"    *)
(* func keeps to the order its contract gives: set_format at most once and *)
(* before anything else, then one write to the staging path, then finalize *)
(* once staged output is there and discard the original once output is     *)
(* there.  Either may return, raise or be interrupted at any point.        *)

Conforming == req.func # "arbitrary"
\* output of the running invocation is at the staging or at the final path
HasOutput == Exists(fs, ctx.temp_file) \/ Exists(fs, ctx.final_file)

\* the extensions an operation may pass to set_format
Formats == {<<"x">>, <<"t", Dot, "g">>}

\* the data the operation writes for the file it was given
Output(c) == <<"o", "u", "t", ":">> \o c.original_file

OpSetFormat ==
    /\ pc = "op"
    /\ opn.nset < MaxSetFormat
    /\ Conforming => opn.nset = 0 /\ last.op = "file"
    /\ \E e \in Formats :
         /\ ctx' = set_format(ctx, e)
         /\ opn' = [opn EXCEPT !.nset = @ + 1, !.format = e]
    /\ last' = Step("set_format", TRUE)
    /\ UNCHANGED <<fs, req, pc, stack, calls, listed, log, finalized, discards, fs0>>

OpWrite ==
    /\ pc = "op"
    /\ opn.nwrite < MaxWrite
    /\ Conforming => opn.nwrite = 0
    /\ LET r == WriteFile(fs, ctx.temp_file, Output(ctx))
       IN  /\ fs' = r.fs
           /\ last' = Step("write", r.ok)
    /\ opn' = [opn EXCEPT !.nwrite = @ + 1]
    /\ UNCHANGED <<req, pc, stack, ctx, calls, listed, log, finalized, discards, fs0>>

OpRename ==
    /\ pc = "op"
    /\ Conforming => opn.nwrite > 0 /\ Exists(fs, ctx.temp_file)
    /\ LET r == rename_temp_file(fs, ctx)
       IN  /\ fs' = r.fs
           /\ last' = Step("rename_temp_file", r.ok)
           /\ finalized' =
                IF r.ok
                THEN LET t == Resolve(r.fs, ctx.final_file)
                     IN  {x \in finalized : x.path # t \/ x.by # ctx.original_file}
                         \cup {[path |-> t, data |-> r.fs[t].data, by |-> ctx.original_file]}
                ELSE finalized
    /\ UNCHANGED <<req, pc, stack, ctx, opn, calls, listed, log, discards, fs0>>

OpDelete ==
    /\ pc = "op"
    /\ Conforming => opn.nwrite > 0 /\ HasOutput /\ Exists(fs, ctx.original_file)
    /\ LET r == delete_original_file(fs, ctx)
       IN  /\ fs' = r.fs
           /\ last' = Step("delete_original_file", r.ok)
    /\ discards' = discards \cup {ctx.original_file}
    /\ UNCHANGED <<req, pc, stack, ctx, opn, calls, listed, log, finalized, fs0>>

OpArchive ==
    /\ pc = "op"
    /\ ~Conforming
    /\ LET r == archive_original_file(fs, ctx)
       IN  /\ fs' = r.fs
           /\ last' = Step("archive_original_file", r.ok)
    /\ UNCHANGED <<req, pc, stack, ctx, opn, calls, listed, log, finalized, discards, fs0>>

\* a "sweeping" func begins by removing another file of the directory that
\* is being walked, one the walk has not reached yet
OpSweep ==
    /\ pc = "op"
    /\ req.func = "sweeping"
    /\ last.op = "file"
    /\ \E name \in Top.todo :
         /\ IsFile(fs, ObjPath(name))
         /\ LET r == Remove(fs, ObjPath(name))
            IN  /\ fs' = r.fs
                /\ last' = Step("sweep", r.ok)
         /\ discards' = discards \cup {ObjPath(name)}
    /\ UNCHANGED <<req, pc, stack, ctx, opn, calls, listed, log, finalized, fs0>>

\* func returns
OpReturn ==
    /\ pc = "op"
    /\ pc' = "walk"
    /\ ctx' = NoCtx
    /\ opn' = FreshOp
    /\ last' = Step("func", TRUE)
    /\ UNCHANGED <<fs, req, stack, calls, listed, log, finalized, discards, fs0>>

\* func raises an Exception: caught by the loop body, reported, next entry
OpRaise ==
    /\ pc = "op"
    /\ pc' = "walk"
    /\ log' = Append(log, Msg("Error processing file", ctx.original_file))
    /\ ctx' = NoCtx
    /\ opn' = FreshOp
    /\ last' = Step("func", FALSE)
    /\ UNCHANGED <<fs, req, stack, calls, listed, finalized, discards, fs0>>

\* KeyboardInterrupt inside func: no handler of traverse catches it
OpInterrupt ==
    /\ pc = "op"
    /\ pc' = "raised"
    /\ stack' = <<>>
    /\ ctx' = NoCtx
    /\ opn' = FreshOp
    /\ last' = Step("interrupt", FALSE)
    /\ UNCHANGED <<fs, req, calls, listed, log, finalized, discards, fs0>>

----------------------------------------------------------------------------
(* The script drone_video.py: it reads a path, checks it, and calls        *)
(* traverse(dir, ".mp4", compress_drone_video, ...) without recursion.     *)

F_mp4 == <<Dot, "m", "p", "4">>

\* input(...).strip().strip("'").strip('"')
Entered(s) == StripChars(StripChars(StripChars(s, {" "}), {"'"}), {"\""})

\* the exit status is 1 whenever traverse printed an error for a file
CliExit_failed ==
    /\ pc \in {"done", "raised"}
    /\ req.cli
    /\ pc' = IF \E i \in 1..Len(log) : log[i].msg = "Error processing file"
             THEN "exit1" ELSE "exit0"
    /\ last' = Step("exit", pc = "done")
    /\ UNCHANGED <<fs, req, stack, ctx, opn, calls, listed, log, finalized, discards, fs0>>

\* lines 8-18 and the call of line 24: the path is read and checked; a path
\* that is missing or no directory ends the script with status 1
CliCheck ==
    /\ pc = "cli"
    /\ LET dir == Entered(req.input)
       IN  /\ req' = [req EXCEPT !.dir = dir, !.format = F_mp4, !.recursive = FALSE]
           /\ pc' = IF ~Exists(fs, dir) \/ ~IsDir(fs, dir) THEN "exit1" ELSE "start"
    /\ last' = Step("check", pc' # "exit1")
    /\ UNCHANGED <<fs, stack, ctx, opn, calls, listed, log, finalized, discards, fs0>>

\* lines 23-30: traverse has returned, or KeyboardInterrupt was caught; the
\* script prints a message and ends with status 0
CliExit ==
    /\ pc \in {"done", "raised"}
    /\ req.cli
    /\ pc' = "exit0"
    /\ last' = Step("exit", pc = "done")
    /\ UNCHANGED <<fs, req, stack, ctx, opn, calls, listed, log, finalized, discards, fs0>>

----------------------------------------------------------------------------
(* The runs checked: a directory tree, and the arguments of traverse.      *)

N_w == <<"w">>
N_d == <<"d">>
N_s == <<"s">>
N_a_m == <<"a", Dot, "m">>
N_a_M == <<"a", Dot, "M">>
N_c_t == <<"c", Dot, "t">>
N_e_m == <<"e", Dot, "m">>
N_xm == <<"x", "m">>
N_a_t_m == <<"a", Dot, "t", Dot, "m">>
N_a_temp_m == <<"a">> \o S_temp \o <<Dot, "m">>
N_a_mp4 == <<"a">> \o F_mp4
N_b_mp4 == <<"b">> \o F_mp4

\* a filesystem with the given directories and files below the working
\* directory; every file holds its own path as data
Tree(dirs, files) ==
    [q \in {<<>>, CWD} \cup dirs \cup files |->
        IF q \in files THEN FileNode(JoinSlash(q)) ELSE DirNode]

D == <<N_w, N_d>>

\* a file that matches, one that does not, a subdirectory with a match
TreeFlat ==
    Tree({D, D \o <<N_s>>}, {D \o <<N_a_m>>, D \o <<N_c_t>>, D \o <<N_s, N_e_m>>})
\* two names that differ in the letter case of the extension only
TreeCase == Tree({D}, {D \o <<N_a_m>>, D \o <<N_a_M>>})
\* a file name with no dot
TreeNoDot == Tree({D}, {D \o <<N_a_m>>, D \o <<N_xm>>})
\* a file name with two dots
TreeDots == Tree({D}, {D \o <<N_a_t_m>>})
\* the output of an earlier run is still there
TreeOld == Tree({D, D \o <<S_compressed>>}, {D \o <<N_a_m>>, D \o <<S_compressed, N_a_m>>})
\* the staging file of an earlier run is still there
TreeStale ==
    Tree({D, D \o <<S_compressed>>}, {D \o <<N_a_m>>, D \o <<S_compressed, N_a_temp_m>>})
\* `compressed` is a regular file
TreeBlocked == Tree({D}, {D \o <<N_a_m>>, D \o <<S_compressed>>})
\* a file whose name is another file's staging name
TreeClash == Tree({D}, {D \o <<N_a_m>>, D \o <<N_a_temp_m>>})

\* a subdirectory whose listing cannot be read, beside a name with no dot
TreeLocked ==
    [Tree({D, D \o <<N_s>>}, {D \o <<N_a_m>>, D \o <<N_xm>>, D \o <<N_s, N_e_m>>})
        EXCEPT ![D \o <<N_s>>] = LockedDirNode]
\* two videos
TreeVideo == Tree({D}, {D \o <<N_a_mp4>>, D \o <<N_b_mp4>>})

\* the root as the caller spells it
RootAbs == <<Slash, "w", Slash, "d">>
RootRel == <<"d">>
RootCwd == <<Dot>>
RootNone == <<Slash, "w", Slash, "n">>
RootFile == <<Slash, "w", Slash, "d", Slash, "a", Dot, "m">>

F_m == <<Dot, "m">>
F_bare == <<"m">>

\* what the user types at the prompt of the script
InQuoted == <<"'">> \o RootAbs \o <<"'", " ">>
InDoubleQuoted == <<"\"">> \o RootRel \o <<"\"">>
InNone == RootNone
InFile == RootAbs \o <<Slash>> \o N_a_mp4

\* a call of traverse
Run(tree, dir, format, func, recursive) ==
    [tree |-> tree, dir |-> dir, format |-> format, func |-> func, recursive |-> recursive,
     cli |-> FALSE, input |-> <<>>]
\* a run of the script
Cli(tree, input, func) ==
    [tree |-> tree, dir |-> <<>>, format |-> <<>>, func |-> func, recursive |-> FALSE,
     cli |-> TRUE, input |-> input]

\* runs that invoke func once: func is arbitrary
RunsOne ==
    {Run(t, RootAbs, F_m, "arbitrary", FALSE) :
        t \in {TreeFlat, TreeDots, TreeOld, TreeStale, TreeBlocked}}
    \cup {Run(TreeNoDot, RootAbs, F_bare, "arbitrary", FALSE)}

\* runs that invoke func on several files: func is conforming
RunsMany ==
    {Run(t, RootAbs, F_m, "conforming", FALSE) : t \in {TreeCase, TreeClash}}
    \cup {Run(t, RootAbs, F_m, "conforming", TRUE) : t \in {TreeFlat, TreeOld, TreeStale}}

\* the other spellings of the root, and roots traverse rejects
RunsRoot ==
    {Run(TreeFlat, d, F_m, "conforming", r) :
        d \in {RootRel, RootCwd, RootNone, RootFile}, r \in BOOLEAN}

\* a func that removes a file the walk has not reached yet
RunsSweep == {Run(TreeFlat, RootAbs, F_m, "sweeping", TRUE)}

\* a subdirectory that cannot be listed
RunsLocked == {Run(TreeLocked, RootAbs, F_bare, "conforming", TRUE)}

\* the script, on a directory, on a path that is missing, on a file
RunsCli ==
    {Cli(TreeVideo, i, "conforming") : i \in {InQuoted, InDoubleQuoted, InNone, InFile}}

Runs == RunsOne \cup RunsMany \cup RunsRoot \cup RunsSweep \cup RunsLocked \cup RunsCli

Init ==
    /\ \E r \in Runs :
         /\ fs = r.tree
         /\ req = [dir |-> r.dir, format |-> r.format, func |-> r.func,
                   recursive |-> r.recursive, cli |-> r.cli, input |-> r.input]
         /\ pc = IF r.cli THEN "cli" ELSE "start"
    /\ fs0 = fs
    /\ stack = <<>>
    /\ ctx = NoCtx
    /\ opn = FreshOp
    /\ last = Step("init", TRUE)
    /\ calls = <<>>
    /\ listed = <<>>
    /\ log = <<>>
    /\ finalized = {}
    /\ discards = {}

Next ==
    \/ traverse
    \/ IterMissing
    \/ IterDir
    \/ IterOther
    \/ IterFile
    \/ Return
    \/ OpSetFormat
    \/ OpWrite
    \/ OpRename
    \/ OpDelete
    \/ OpArchive
    \/ OpSweep
    \/ OpReturn
    \/ OpRaise
    \/ OpInterrupt
    \/ CliCheck
    \/ CliExit

Spec == Init /\ [][Next]_vars

\* the check of the script, the head of traverse, one iteration of its loop
LoopNext == CliCheck \/ traverse \/ IterMissing \/ IterDir \/ IterOther \/ IterFile
\* such a step can be taken: the script or traverse is about to run, or the
\* loop has an entry of the listing before it
LoopReady ==
    \/ pc \in {"cli", "start"}
    \/ pc = "walk" /\ stack # <<>> /\ Top.todo # {}

\* the interpreter runs: the check, the head of traverse and the iterations
\* of the loop are taken when they can be (weak fairness, its enabling
\* condition written out), a call whose listing is exhausted returns, the
\* script ends once traverse is left, and every invocation of func returns,
\* raises or is interrupted
FairSpec ==
    /\ Spec
    /\ []<>(~LoopReady) \/ []<><<LoopNext>>_vars
    /\ WF_vars(Return)
    /\ WF_vars(CliExit)
    /\ WF_vars(OpReturn \/ OpRaise \/ OpInterrupt)

----------------------------------------------------------------------------
(* What the claims speak of.                                               *)

\* the directory the run was started on, as it was before the run
RootDir == Resolve(fs0, PathStr(req.dir))
RootIsDir == IsDirAt(fs0, RootDir)
\* a file that was there before the run and whose name ends with the filter
Matching(q) == IsFileAt(fs0, q) /\ EndsWith(Lower(q[Len(q)]), Lower(req.format))
\* the matching files directly in the root, and at any depth under it
ChildFiles == {q \in DOMAIN fs0 : Len(q) = Len(RootDir) + 1 /\ Parent(q) = RootDir /\ Matching(q)}
FilesUnder ==
    {q \in DOMAIN fs0 : Len(q) > Len(RootDir) /\ SubSeq(q, 1, Len(RootDir)) = RootDir /\ Matching(q)}
\* the invocations of func on the file q
CallsOn(q) == {i \in 1..Len(calls) : Resolve(fs0, calls[i]) = q}
\* func raised for the file it was given as original_file
RaisedFor(s) == \E i \in 1..Len(log) : log[i] = Msg("Error processing file", s)
Finished == pc = "done"
\* traverse has been called
Called == pc \notin {"cli", "start", "exit1"}

\* C1: after a non-recursive traverse of a directory, func has been invoked
\* exactly once on every direct child file whose name ends with the filter
\* (letter case ignored), and on nothing else.
C1_ExactlyChildFiles ==
    (Finished /\ ~req.recursive /\ RootIsDir) =>
        /\ \A q \in ChildFiles : Cardinality(CallsOn(q)) = 1
        /\ \A i \in 1..Len(calls) : Resolve(fs0, calls[i]) \in ChildFiles

\* C2: after a recursive traverse, func has been invoked exactly once on
\* every matching file at any depth under the root, and no directory has
\* been listed more than once.
C2_ExactlyOncePerFile ==
    (Finished /\ req.recursive /\ RootIsDir) =>
        /\ \A q \in FilesUnder : Cardinality(CallsOn(q)) = 1
        /\ \A i, j \in 1..Len(listed) : listed[i] = listed[j] => i = j

\* C3: whatever files func raises for, traverse absorbs the exception, still
\* invokes func on every other matching file, the outputs those invocations
\* finalized are there afterwards, and traverse returns normally.
C3_FailuresIsolated ==
    /\ last = Step("func", FALSE) => pc = "walk"
    /\ (Finished /\ RootIsDir) =>
        /\ \A q \in (IF req.recursive THEN FilesUnder ELSE ChildFiles) : CallsOn(q) # {}
        /\ \A r \in finalized :
             ~RaisedFor(r.by) => (r.path \in DOMAIN fs /\ fs[r.path].data = r.data)

\* directly inside a directory named `compressed`
InCompressed(q) == Len(q) >= 2 /\ q[Len(q) - 1] = S_compressed
\* the file q is as it was before the run
Intact(q) == q \in DOMAIN fs /\ fs[q] = fs0[q]

\* C4, as claimed: after a traversal in which no invocation called
\* delete_original_file, every file that was under the root before the run
\* is still there with the same content.
C4_NothingLost ==
    (Finished /\ discards = {}) =>
        \A q \in DOMAIN fs0 :
            (IsFileAt(fs0, q) /\ Len(q) > Len(RootDir) /\ SubSeq(q, 1, Len(RootDir)) = RootDir)
                => Intact(q)

\* C4, amended: as long as no invocation has called delete_original_file,
\* every file that was there before the run and does not lie directly inside
\* a directory named `compressed` is still there with the same content.
C4_OriginalsKept ==
    discards = {} =>
        \A q \in DOMAIN fs0 : (IsFileAt(fs0, q) /\ ~InCompressed(q)) => Intact(q)

\* a finished recursive run that staged and finalized output and discarded nothing
C4_Witness ==
    /\ Finished
    /\ req.recursive
    /\ discards = {}
    /\ Len(calls) >= 2
    /\ finalized # {}

\* C5: at the moment traverse invokes func for a file in directory d,
\* d/compressed is a directory.
C5_StagingDirExists ==
    (pc = "op" /\ last = Step("file", TRUE)) =>
        IsDir(fs, Dirname(ctx.original_file) \o <<Slash>> \o S_compressed)

\* the paths of the transaction for the original s, with the extension e set
\* (as constructed when e is empty)
PathsOf(s, e) ==
    LET c == FileContext(fs, s).ctx
        d == IF e = <<>> THEN c ELSE set_format(c, e)
    IN  {d.temp_file, d.final_file}

\* C6: two distinct files of one directory processed in one run never share a
\* staging or final path, as constructed or after the same set_format.
C6_PathsDisjoint ==
    \A i, j \in 1..Len(calls) :
        (calls[i] # calls[j] /\ Dirname(calls[i]) = Dirname(calls[j])) =>
            \A e \in {<<>>} \cup Formats : PathsOf(calls[i], e) \cap PathsOf(calls[j], e) = {}

\* C7: after set_format calls the last of which gave extension e, the staging
\* path is <dir>/compressed/<name>-temp.<e> and the final path is
\* <dir>/compressed/<name>.<e>, whatever the earlier calls gave.
C7_LastFormatDecides ==
    (pc = "op" /\ opn.nset > 0) =>
        LET staging == Dirname(ctx.original_file) \o <<Slash>> \o S_compressed \o <<Slash>>
            name == RSplitDot(Basename(ctx.original_file))[1]
        IN  /\ ctx.temp_file = staging \o name \o S_temp \o <<Dot>> \o opn.format
            /\ ctx.final_file = staging \o name \o <<Dot>> \o opn.format

\* a step that is a call of rename_temp_file
RenameStep == pc = "op" /\ last'.op = "rename_temp_file"

\* C8, as claimed: rename_temp_file with no staging file fails, and the final
\* path is absent after the failed call.
C8_FinalAbsent ==
    [][(RenameStep /\ ~Exists(fs, ctx.temp_file)) =>
           (~last'.ok /\ ~Exists(fs', ctx.final_file))]_vars

\* C8, amended: rename_temp_file with no staging file fails and leaves the
\* filesystem as it was: the final path is absent if it was absent, and still
\* holds what an earlier run left there otherwise.
C8_FailsUnchanged ==
    [][(RenameStep /\ ~Exists(fs, ctx.temp_file)) => (~last'.ok /\ fs' = fs)]_vars

\* rename_temp_file has failed for want of a staging file, an earlier output
\* being at the final path
C8_Witness ==
    /\ pc = "op"
    /\ last = Step("rename_temp_file", FALSE)
    /\ ~Exists(fs, ctx.temp_file)
    /\ IsFile(fs, ctx.final_file)

\* C9: traverse on a root that does not exist or is no directory reports it,
\* returns, invokes func on nothing, lists nothing and changes nothing.
C9_BadRootRejected ==
    (Called /\ ~RootIsDir) =>
        /\ Finished
        /\ calls = <<>>
        /\ listed = <<>>
        /\ fs = fs0
        /\ log = <<Msg(IF RootDir = NoPath THEN "Directory not found" ELSE "Not a directory",
                       PathStr(req.dir))>>

\* traverse has returned from a root that is a regular file
C9_Witness == Finished /\ IsFileAt(fs0, RootDir)

C11_ConstructedPaths ==
    (pc = "op" /\ last = Step("file", TRUE)) =>
        LET o == ctx.original_file
        IN  \A i, j \in 1..Len(o) :
                (/\ i < j
                 /\ o[i] = Slash /\ o[j] = Dot
                 /\ \A k \in (i + 1)..Len(o) : o[k] # Slash
                 /\ \A k \in (j + 1)..Len(o) : o[k] # Dot) =>
                    LET staging == SubSeq(o, 1, i - 1) \o <<Slash>> \o S_compressed \o <<Slash>>
                        name == SubSeq(o, i + 1, j - 1)
                        ext == SubSeq(o, j + 1, Len(o))
                    IN  /\ ctx.temp_file = staging \o name \o S_temp \o <<Dot>> \o ext
                        /\ ctx.final_file = staging \o name \o <<Dot>> \o ext

\* a FileContext has been built for a name with two dots
C11_Witness ==
    /\ pc = "op"
    /\ last = Step("file", TRUE)
    /\ Basename(ctx.original_file) = N_a_t_m
    /\ Basename(ctx.temp_file) = <<"a", Dot, "t">> \o S_temp \o <<Dot, "m">>

\* a step that is a call of delete_original_file
DeleteStep == pc = "op" /\ last'.op = "delete_original_file"

\* C12: delete_original_file never raises; it removes the original when it is
\* there and changes nothing when it is gone, so a further call changes
\* nothing; no path but the transaction's own original is ever removed.
C12_DiscardIdempotent ==
    [][DeleteStep =>
           LET o == Resolve(fs, ctx.original_file)
           IN  /\ last'.ok
               /\ fs' = IF o = NoPath THEN fs ELSE Del(fs, o)
               /\ ~Exists(fs', ctx.original_file)
               /\ delete_original_file(fs', ctx) = Done(fs')]_vars

\* delete_original_file has returned with the original gone, every other
\* file of the directory still there
C12_Witness ==
    /\ pc = "op"
    /\ last = Step("delete_original_file", TRUE)
    /\ ctx.original_file \in discards
    /\ ~Exists(fs, ctx.original_file)
    /\ IsFileAt(fs0, Resolve(fs0, ctx.original_file))
    /\ \A q \in DOMAIN fs0 : q # Resolve(fs0, ctx.original_file) => q \in DOMAIN fs

\* a step of the engine itself: not one taken by the Transform Operation
EngineStep == pc \in {"start", "walk"}

\* C13: the engine itself writes no file: the only change a step of traverse
\* makes to the filesystem is a new directory named `compressed`, inside a
\* directory that holds a file matching the filter.
C13_EngineWritesNothing ==
    [][EngineStep =>
           \/ fs' = fs
           \/ \E q \in DOMAIN fs' \ DOMAIN fs :
                /\ fs' = Put(fs, q, DirNode)
                /\ q[Len(q)] = S_compressed
                /\ \E x \in DOMAIN fs :
                     /\ Parent(x) = Parent(q) /\ Len(x) = Len(q)
                     /\ IsFileAt(fs, x)
                     /\ EndsWith(Lower(x[Len(x)]), Lower(req.format))]_vars

\* a run has finished whose Transform Operation did nothing to the
\* filesystem: all that changed is the new `compressed` directory
C13_Witness ==
    /\ Finished
    /\ calls # <<>>
    /\ DOMAIN fs \ DOMAIN fs0 = {D \o <<S_compressed>>}
    /\ \A q \in DOMAIN fs0 : Intact(q)

\* the propagation itself: a KeyboardInterrupt inside func leaves traverse at
\* once, through all active calls, and nothing is invoked, listed or changed
\* by traverse afterwards
InterruptPropagates ==
    [][/\ last'.op = "interrupt" =>
            (pc' = "raised" /\ stack' = <<>> /\ fs' = fs /\ calls' = calls
             /\ finalized' = finalized /\ log' = log)
       /\ pc = "raised" => (pc' = "exit0" /\ fs' = fs /\ calls' = calls /\ listed' = listed)]_vars


\* C15: a KeyboardInterrupt inside func ends the run (InterruptPropagates),
\* and every output that an invocation before the interrupted one finalized
\* is then still there with the content it was finalized with.
C15_EarlierOutputsKept ==
    pc = "raised" =>
        \A r \in finalized :
            r.by # calls[Len(calls)] => (r.path \in DOMAIN fs /\ fs[r.path].data = r.data)

\* C18: whatever the spelling of the root, the path the loop tests, recurses
\* into and gives to FileContext for a listed entry names that entry: an
\* entry that exists is found by it.
C18_EntryOwnPath ==
    (pc = "walk" /\ stack # <<>>) =>
        \A name \in Top.todo :
            LET own == PathChild(Top.dir, name)
            IN  Exists(fs, own) =>
                    /\ Exists(fs, ObjPath(name))
                    /\ Resolve(fs, ObjPath(name)) = Resolve(fs, own)

\* C19: in a recursive run func is never invoked on a file the run itself
\* wrote: the file it is given was there before the run and still has the
\* content it had then.
C19_OutputsNotInputs ==
    (req.recursive /\ pc = "op" /\ last = Step("file", TRUE)) =>
        LET o == Resolve(fs, ctx.original_file)
        IN  o \in DOMAIN fs0 /\ fs[o] = fs0[o]

\* the path the script checks and passes on is what was typed, stripped
EnteredIsDir == IsDir(fs0, Entered(req.input))

\* C14: the script ends with status 1 exactly when the entered path is
\* missing or no directory; traverse is called in every other run, and the
\* script then ends with status 0 whatever traverse reported for the files.
C14_ExitStatus ==
    (req.cli /\ pc # "cli") =>
        /\ req.dir = Entered(req.input)
        /\ pc = "exit1" <=> ~EnteredIsDir

\* the script has ended with status 0 after a run, not interrupted, in which
\* func raised for one file and finalized the output of another
C14_Witness ==
    /\ req.cli
    /\ pc = "exit0"
    /\ last = Step("exit", TRUE)
    /\ \E i \in 1..Len(log) : log[i].msg = "Error processing file"
    /\ \E r \in finalized : ~RaisedFor(r.by)

\* the directories whose listing cannot be read
LockedDirs == {s \in DOMAIN fs0 : fs0[s] = LockedDirNode}
\* q lies below the directory s
Below(q, s) == Len(q) > Len(s) /\ SubSeq(q, 1, Len(s)) = s

\* C16: a recursive run over a tree with a subdirectory S whose listing fails
\* returns normally; nothing below S is listed or invoked, and every matching
\* file outside S has been invoked exactly once.
C16_ListingFailureContained ==
    (Finished /\ req.recursive /\ RootIsDir /\ LockedDirs # {}) =>
        /\ \A s \in LockedDirs :
             /\ \A i \in 1..Len(listed) : listed[i] # s /\ ~Below(listed[i], s)
             /\ \A q \in FilesUnder : Below(q, s) => CallsOn(q) = {}
        /\ \A q \in FilesUnder :
             (\A s \in LockedDirs : ~Below(q, s)) => Cardinality(CallsOn(q)) = 1
        /\ \E i \in 1..Len(log) : log[i].msg = "Cannot access directory"

\* C17: a listed entry that is gone when the walk reaches it is skipped: the
\* step that takes it invokes nothing, lists nothing, changes no path (no
\* `compressed` directory is made) and leaves the rest of the listing to be
\* walked.
C17_VanishedSkipped ==
    [][(pc = "walk" /\ stack # <<>> /\ Len(stack') >= Len(stack)) =>
           \A name \in Top.todo :
               (/\ ~Exists(fs, PathChild(Top.dir, name))
                /\ name \notin stack'[Len(stack)].todo) =>
                   /\ last' = Step("skip", TRUE)
                   /\ fs' = fs
                   /\ calls' = calls
                   /\ listed' = listed
                   /\ pc' = "walk"
                   /\ stack' = Taken(name)]_vars

\* func is invoked for an entry after the walk skipped an entry that an
\* earlier invocation of the run had removed
C17_Witness ==
    /\ pc = "op"
    /\ last = Step("file", TRUE)
    /\ Len(calls) >= 2
    /\ \E i \in 1..Len(log) :
         /\ log[i].msg = "Skipping"
         /\ IsFile(fs0, log[i].path)
         /\ ~Exists(fs, log[i].path)
         /\ log[i].path \in discards

\* C20: every traversal ends, as long as every invocation of func does.
C20_Terminates == <>(pc \in {"done", "raised", "exit0", "exit1"})

\* a recursive run has ended after several invocations, with output files
\* and `compressed` directories added to the tree it walked
C20_Witness ==
    /\ Finished
    /\ req.recursive
    /\ Len(calls) >= 2
    /\ \E q \in DOMAIN fs \ DOMAIN fs0 : IsFileAt(fs, q) /\ InCompressed(q)
    /\ \E q \in DOMAIN fs \ DOMAIN fs0 : IsDirAt(fs, q) /\ Len(q) > Len(RootDir) + 1

====
